---- MODULE Spec2Model ----
(***************************************************************************)
(* swing_notifier.py: per-ticker position state machine (evaluate_ticker)  *)
(* driven by main() over the watchlist, with the state file trade_state    *)
(* .json read at the start of a run and replaced at its end.               *)
(*                                                                         *)
(* Numbers.  Prices are integers in 1/1000 yen, so that                    *)
(* low * (1 - SL_BUFFER) is exact.  The percentages TP1, TP2 and the       *)
(* per-mille SL_BUFFER are kept as integer numerators and every comparison *)
(* of the source is cross-multiplied; the prices of the model stay away    *)
(* from the thresholds' boundaries, where binary floating point could      *)
(* round differently.                                                      *)
(* None is 0: every price and every timestamp text of the model is >= 1.   *)
(***************************************************************************)
EXTENDS Integers, Sequences, FiniteSets, TLC

\* ------------------------------------------------------------------ CONFIG
\* The watchlist, cut down to two tickers (the source lists 27).
WATCHLIST == <<"7203.T", "8306.T">>

RSI_BUY_MAX == 40
RSI_SELL_MIN == 60
\* TP1 = 0.03 and TP2 = 0.05 as percentages, SL_BUFFER = 0.001 as per mille.
TP1 == 3
TP2 == 5
SL_BUFFER == 1

\* ------------------------------------------------------------------ bounds
\* Bar timestamps are 1..MaxTs (the index of the latest 30-minute bar).
MaxTs == 2

\* At most MaxCrashes runs are terminated before their end.
MaxCrashes == 1

None == 0

\* Closing, low and high prices of the bars, in 1/1000 yen.
Prices == {100000, 104000, 109000}

\* The prices the data source holds for a ticker: the first ticker's price
\* moves over Prices, the second's stays at one price.
PricesOf(t) == IF t = "7203.T" THEN Prices ELSE {104000}

\* The daily short moving average the data source holds for a ticker, around
\* a daily long moving average of 2000.  The second ticker's daily averages
\* are level, so it is evaluated and stored but gives no entry signal: the
\* records of the two tickers are independent, and this bounds their product.
DailyOf(t) == IF t = "7203.T" THEN {1999, 2001} ELSE {2000}

Tickers == {WATCHLIST[i] : i \in 1..Len(WATCHLIST)}

AlertKinds == {"entry_long", "entry_short", "stop_loss", "tp1", "tp2", "exit_candidate"}

Min(S) == CHOOSE x \in S : \A y \in S : x <= y
Max(S) == CHOOSE x \in S : \A y \in S : x >= y

\* ------------------------------------------------------------------ helpers
\* str(last_ts): the text of a bar timestamp, which is what the record keeps.
\* The text of a pandas Timestamp carries the whole instant, so two bars of
\* one index never print alike; a text is never None.
str(ts) == 1000 + ts

crossed_up(prev_a, prev_b, curr_a, curr_b) ==
    (prev_a <= prev_b) /\ (curr_a > curr_b)

\* Mutant of crossed_down: the current pair is compared like the previous one.
crossed_down_CurrentNotStrict(prev_a, prev_b, curr_a, curr_b) ==
    (prev_a >= prev_b) /\ (curr_a >= curr_b)

crossed_down(prev_a, prev_b, curr_a, curr_b) ==
    (prev_a >= prev_b) /\ (curr_a < curr_b)

\* df["Low"].iloc[-lookback:].min(): Low is the set of the Low values of the
\* last SWING_LOOKBACK rows (evaluate_ticker calls it with len(df) >= 50, so
\* the whole-column branch is not taken).
recent_swing_low(Low) == Min(Low)

recent_swing_high(High) == Max(High)

\* ------------------------------------------------------------------ state
VARIABLES
    file,      \* trade_state.json: [kind, data]
    tmp,       \* trade_state.json.tmp: [kind, data]
    state,     \* main's dict `state`, ticker -> record
    pc,        \* where main is: "idle", "loop", "writing", "replace"
    idx,       \* position of the for loop in WATCHLIST
    clock,     \* timestamp of the latest bar the data source holds
    last,      \* the latest pass of the loop: [t, alerts], the ticker and the
               \* alerts (send_line calls) of its evaluation, in order
    outcome,   \* ticker -> how its evaluation of this run ended
    tpCount,   \* ticker -> [tp1, tp2], take-profit alerts since the latest entry
    barCount,  \* ticker -> [entry, exit], alerts for the bar `clock`
    closedSide, \* ticker -> the side of the position its latest stop-loss closed
    interrupted, \* [t, alerts, ts]: the latest pass of a run that was terminated
               \* before its save, and the bar it ran on
    reset,     \* the manual reset input: [input, taken, alerted], the tickers
               \* that have a key in it, those that had one when the run
               \* started, and those a manual-reset alert was sent for
    crashes    \* the number of runs terminated before their end

vars == <<file, tmp, state, pc, idx, clock, last, outcome, tpCount, barCount, closedSide,
          interrupted, reset, crashes>>

\* The record evaluate_ticker starts from when the ticker has none.
InitialRecord ==
    [open |-> FALSE, side |-> "none", entry_price |-> None, entry_time |-> None,
     sl |-> None, tp1_sent |-> FALSE, tp2_sent |-> FALSE, last_signal_time |-> None]

EmptyMap == [t \in {} |-> InitialRecord]

\* state.get(ticker, {...})
Get(m, t) == IF t \in DOMAIN m THEN m[t] ELSE InitialRecord

\* state[ticker] = st
Put(m, t, st) == [x \in (DOMAIN m) \cup {t} |-> IF x = t THEN st ELSE m[x]]

\* ------------------------------------------------------------------ inputs
\* What evaluate_ticker reads of the two frames: the latest two rows of the
\* intraday indicators, the latest row of the daily ones, the latest close.
Snapshots(t) ==
    [d_MA_S : DailyOf(t), d_MA_L : {2000},
     p_MA_S : {103000, 104000, 105000}, p_MA_L : {104000},
     c_MA_S : {98000, 111000}, c_MA_L : {99000, 110000},
     p_RSI : {RSI_BUY_MAX, RSI_SELL_MIN}, c_RSI : {35, 65},
     Close : PricesOf(t)]

\* The Low and High columns of the lookback window; the latest bar has
\* Low <= Close <= High.
Windows(t, close) ==
    {[Low |-> L, High |-> H] : L \in {X \in SUBSET PricesOf(t) : \E l \in X : l <= close},
                               H \in {X \in SUBSET PricesOf(t) : \E h \in X : h >= close}}

\* ------------------------------------------------------------------ evaluate_ticker
buy_allowed(b) == b.d_MA_S > b.d_MA_L
sell_allowed(b) == b.d_MA_S < b.d_MA_L

\* Mutant of buy_signal: the RSI is not required to rise.
buy_signal_NoRsiRise(b) ==
    /\ buy_allowed(b)
    /\ crossed_up(b.p_MA_S, b.p_MA_L, b.c_MA_S, b.c_MA_L)
    /\ b.Close > b.c_MA_L
    /\ b.p_RSI <= RSI_BUY_MAX

buy_signal(b) ==
    /\ buy_allowed(b)
    /\ crossed_up(b.p_MA_S, b.p_MA_L, b.c_MA_S, b.c_MA_L)
    /\ b.Close > b.c_MA_L
    /\ (b.p_RSI <= RSI_BUY_MAX) /\ (b.c_RSI > b.p_RSI)

\* Mutant of sell_signal: the close is not compared with the long average.
sell_signal_NoBelow(b) ==
    /\ sell_allowed(b)
    /\ crossed_down(b.p_MA_S, b.p_MA_L, b.c_MA_S, b.c_MA_L)
    /\ (b.p_RSI >= RSI_SELL_MIN) /\ (b.c_RSI < b.p_RSI)

sell_signal(b) ==
    /\ sell_allowed(b)
    /\ crossed_down(b.p_MA_S, b.p_MA_L, b.c_MA_S, b.c_MA_L)
    /\ b.Close < b.c_MA_L
    /\ (b.p_RSI >= RSI_SELL_MIN) /\ (b.c_RSI < b.p_RSI)

\* Mutant of same_bar_sent: the stored timestamp is never matched.
same_bar_sent_Never(st, ts) == FALSE

same_bar_sent(st, ts) == st.last_signal_time = str(ts)

\* Mutant of LongStop: the buffer is added to the swing low.
LongStop_AddsBuffer(w) == (recent_swing_low(w.Low) * (1000 + SL_BUFFER)) \div 1000

\* recent_swing_low(intra, SWING_LOOKBACK) * (1 - SL_BUFFER)
LongStop(w) == (recent_swing_low(w.Low) * (1000 - SL_BUFFER)) \div 1000

\* recent_swing_high(intra, SWING_LOOKBACK) * (1 + SL_BUFFER)
ShortStop(w) == (recent_swing_high(w.High) * (1000 + SL_BUFFER)) \div 1000

EnterLong(st, b, w, ts) ==
    [st EXCEPT !.open = TRUE, !.side = "long", !.entry_price = b.Close,
               !.entry_time = str(ts), !.sl = LongStop(w),
               !.tp1_sent = FALSE, !.tp2_sent = FALSE, !.last_signal_time = str(ts)]

EnterShort(st, b, w, ts) ==
    [st EXCEPT !.open = TRUE, !.side = "short", !.entry_price = b.Close,
               !.entry_time = str(ts), !.sl = ShortStop(w),
               !.tp1_sent = FALSE, !.tp2_sent = FALSE, !.last_signal_time = str(ts)]

\* price <= st["sl"] (long), price >= st["sl"] (short)
StopHit(st, side, price) ==
    IF side = "long" THEN price <= st.sl ELSE price >= st.sl

\* price >= entry_price * (1 + tp) (long), price <= entry_price * (1 - tp) (short)
TpHit(st, side, price, tp) ==
    IF side = "long" THEN price * 100 >= st.entry_price * (100 + tp)
                     ELSE price * 100 <= st.entry_price * (100 - tp)

ExitCross(side, b) ==
    IF side = "long" THEN crossed_down(b.p_MA_S, b.p_MA_L, b.c_MA_S, b.c_MA_L)
                     ELSE crossed_up(b.p_MA_S, b.p_MA_L, b.c_MA_S, b.c_MA_L)

\* Mutants of CloseByStop: the update forgets one of its two keys.
CloseByStop_KeepsOpen(st) == [st EXCEPT !.side = "none"]

CloseByStop_KeepsSide(st) == [st EXCEPT !.open = FALSE]

\* st.update({"open": False, "side": None})
CloseByStop(st) == [st EXCEPT !.open = FALSE, !.side = "none"]

\* Mutant of Tp1Due: the at-most-once flag is not read.
Tp1Due_NoFlag(st, side, price) == TpHit(st, side, price, TP1)

\* not st["tp1_sent"] and price >= st["entry_price"] * (1 + TP1)
Tp1Due(st, side, price) == ~st.tp1_sent /\ TpHit(st, side, price, TP1)

\* Mutant of Tp2Due: the second check reads the flag of the first.
Tp2Due_ReadsTp1Flag(st, side, price) == ~st.tp1_sent /\ TpHit(st, side, price, TP2)

\* not st["tp2_sent"] and price >= st["entry_price"] * (1 + TP2)
Tp2Due(st, side, price) == ~st.tp2_sent /\ TpHit(st, side, price, TP2)

\* exit_cross_long and not same_bar_sent; same_bar_sent was computed from the
\* record before the checks.
ExitDue(st, side, b, ts) == ExitCross(side, b) /\ ~same_bar_sent(st, ts)

\* Mutant of OpenChecks: the first take-profit moves the stop to the entry
\* price.
OpenChecks_MovesStop(st, side, b, ts) ==
    LET price == b.Close
        hit   == StopHit(st, side, price)
        s1    == IF hit THEN CloseByStop(st) ELSE st
        t1    == Tp1Due(s1, side, price)
        s2    == IF t1 THEN [s1 EXCEPT !.tp1_sent = TRUE, !.sl = s1.entry_price] ELSE s1
        t2    == Tp2Due(s2, side, price)
        s3    == IF t2 THEN [s2 EXCEPT !.tp2_sent = TRUE] ELSE s2
        xc    == ExitDue(st, side, b, ts)
        s4    == IF xc THEN [s3 EXCEPT !.last_signal_time = str(ts)] ELSE s3
    IN  [st |-> s4,
         alerts |-> (IF hit THEN <<"stop_loss">> ELSE <<>>)
                    \o (IF t1 THEN <<"tp1">> ELSE <<>>)
                    \o (IF t2 THEN <<"tp2">> ELSE <<>>)
                    \o (IF xc THEN <<"exit_candidate">> ELSE <<>>)]

\* Mutant of OpenChecks: the evaluation returns after the stop-loss.
OpenChecks_StopReturns(st, side, b, ts) ==
    LET price == b.Close
        hit   == StopHit(st, side, price)
        t1    == ~hit /\ Tp1Due(st, side, price)
        s2    == IF t1 THEN [st EXCEPT !.tp1_sent = TRUE] ELSE st
        t2    == ~hit /\ Tp2Due(s2, side, price)
        s3    == IF t2 THEN [s2 EXCEPT !.tp2_sent = TRUE] ELSE s2
        xc    == ~hit /\ ExitDue(st, side, b, ts)
        s4    == IF xc THEN [s3 EXCEPT !.last_signal_time = str(ts)] ELSE s3
    IN  [st |-> IF hit THEN CloseByStop(st) ELSE s4,
         alerts |-> (IF hit THEN <<"stop_loss">> ELSE <<>>)
                    \o (IF t1 THEN <<"tp1">> ELSE <<>>)
                    \o (IF t2 THEN <<"tp2">> ELSE <<>>)
                    \o (IF xc THEN <<"exit_candidate">> ELSE <<>>)]

\* The four checks of an open position, in the order of the source.  The
\* branch is chosen by the side the record has when the evaluation starts;
\* the checks after the stop-loss read the record as the stop-loss left it.
OpenChecks(st, side, b, ts) ==
    LET price == b.Close
        hit   == StopHit(st, side, price)
        s1    == IF hit THEN CloseByStop(st) ELSE st
        t1    == Tp1Due(s1, side, price)
        s2    == IF t1 THEN [s1 EXCEPT !.tp1_sent = TRUE] ELSE s1
        t2    == Tp2Due(s2, side, price)
        s3    == IF t2 THEN [s2 EXCEPT !.tp2_sent = TRUE] ELSE s2
        xc    == ExitDue(st, side, b, ts)
        s4    == IF xc THEN [s3 EXCEPT !.last_signal_time = str(ts)] ELSE s3
    IN  [st |-> s4,
         alerts |-> (IF hit THEN <<"stop_loss">> ELSE <<>>)
                    \o (IF t1 THEN <<"tp1">> ELSE <<>>)
                    \o (IF t2 THEN <<"tp2">> ELSE <<>>)
                    \o (IF xc THEN <<"exit_candidate">> ELSE <<>>)]

\* The branch `if not st["open"]`.
FlatBranch(st, b, w, ts) ==
    IF buy_signal(b) /\ ~same_bar_sent(st, ts)
    THEN [st |-> EnterLong(st, b, w, ts), alerts |-> <<"entry_long">>]
    ELSE IF sell_signal(b) /\ ~same_bar_sent(st, ts)
         THEN [st |-> EnterShort(st, b, w, ts), alerts |-> <<"entry_short">>]
         ELSE [st |-> st, alerts |-> <<>>]

\* The branch `else`: a record that is open with neither side passes through.
OpenBranch(st, b, ts) ==
    IF st.side \in {"long", "short"}
    THEN OpenChecks(st, st.side, b, ts)
    ELSE [st |-> st, alerts |-> <<>>]

\* Mutant of evaluate_ticker: an opposite entry signal is taken while a
\* position is open.
evaluate_ticker_Flips(st, b, w, ts) ==
    IF ~st.open \/ (st.side = "long" /\ sell_signal(b)) \/ (st.side = "short" /\ buy_signal(b))
    THEN FlatBranch(st, b, w, ts)
    ELSE OpenBranch(st, b, ts)

\* evaluate_ticker from the state init on: the record it stores and the
\* alerts it sends.
evaluate_ticker(st, b, w, ts) ==
    IF ~st.open THEN FlatBranch(st, b, w, ts) ELSE OpenBranch(st, b, ts)

\* The Low and High windows are read on entry only: any window stands for
\* all of them otherwise.
Reads(t, st, b, ts) ==
    IF ~st.open /\ ~same_bar_sent(st, ts) /\ (buy_signal(b) \/ sell_signal(b))
    THEN Windows(t, b.Close)
    ELSE {[Low |-> {b.Close}, High |-> {b.Close}]}

\* ------------------------------------------------------------------ state file
Absent == [kind |-> "absent", data |-> EmptyMap]

\* A file whose text json.load cannot parse.
Garbage == [kind |-> "garbage", data |-> EmptyMap]

\* The value json.load gives for a document that is a JSON list, not an
\* object: it is told from a dict by its one key, which no ticker has.
JsonList == [k \in {"(list)"} |-> InitialRecord]

\* isinstance(m, dict): the value has the methods of a dict.
IsMapping(m) == "(list)" \notin DOMAIN m

\* load_state: {} when the file does not exist and when json.load raises,
\* else what json.load gives.
load_state(f) == IF f.kind \in {"absent", "garbage"} THEN EmptyMap ELSE f.data

\* json.dump(state, f): the document written for the dict.
Dump(m) == [kind |-> "json", data |-> m]

\* A file opened for writing whose document is not written to its end.
Partial == [kind |-> "partial", data |-> EmptyMap]

\* ------------------------------------------------------------------ main
NoPass == [t |-> "none", alerts |-> <<>>]

\* No run has been terminated since the latest save.
NoLoss == [t |-> "none", alerts |-> <<>>, ts |-> None]

Init ==
    /\ file = Absent
    /\ tmp = Absent
    /\ state = EmptyMap
    /\ pc = "idle"
    /\ idx = 1
    /\ clock = 1
    /\ last = NoPass
    /\ outcome = [t \in Tickers |-> "none"]
    /\ tpCount = [t \in Tickers |-> [tp1 |-> 0, tp2 |-> 0]]
    /\ barCount = [t \in Tickers |-> [entry |-> 0, exit |-> 0]]
    /\ closedSide = [t \in Tickers |-> "none"]
    /\ interrupted = NoLoss
    /\ reset = [input |-> {}, taken |-> {}, alerted |-> {}]
    /\ crashes = 0

\* main up to the loop: the frames are fetched (the latest bar is the one of
\* the run before or a newer one) and the state file is loaded.
Start ==
    /\ pc = "idle"
    /\ \E ts \in {clock, clock + 1} :
          /\ ts <= MaxTs
          /\ clock' = ts
          /\ barCount' = IF ts = clock THEN barCount
                         ELSE [t \in Tickers |-> [entry |-> 0, exit |-> 0]]
    /\ state' = load_state(file)
    /\ idx' = 1
    /\ pc' = "loop"
    /\ last' = NoPass
    /\ outcome' = [t \in Tickers |-> "none"]
    /\ reset' = [reset EXCEPT !.taken = reset.input]
    /\ UNCHANGED <<file, tmp, tpCount, closedSide, interrupted, crashes>>

\* The send_line calls of kind k among the calls of one evaluation.
Count(seq, k) == Cardinality({i \in 1..Len(seq) : seq[i] = k})

Has(seq, k) == \E i \in 1..Len(seq) : seq[i] = k

\* The alert counters stop at 2: "more than one" is all that is asked of them.
Cap(n) == IF n > 2 THEN 2 ELSE n

\* One pass of the loop body in which evaluate_ticker runs to its end.
EvaluateOk ==
    /\ pc = "loop" /\ idx <= Len(WATCHLIST)
    /\ IsMapping(state)
    /\ LET t == WATCHLIST[idx]
           st == Get(state, t)
       IN \E b \in Snapshots(t) : \E w \in Reads(t, st, b, clock) :
            LET r == evaluate_ticker(st, b, w, clock)
                entered == Has(r.alerts, "entry_long") \/ Has(r.alerts, "entry_short")
            IN /\ state' = Put(state, t, r.st)
               /\ last' = [t |-> t, alerts |-> r.alerts]
               /\ outcome' = [outcome EXCEPT ![t] = "ok"]
               /\ tpCount' = [tpCount EXCEPT ![t] =
                     IF entered THEN [tp1 |-> 0, tp2 |-> 0]
                     ELSE [tp1 |-> Cap(@.tp1 + Count(r.alerts, "tp1")),
                           tp2 |-> Cap(@.tp2 + Count(r.alerts, "tp2"))]]
               /\ barCount' = [barCount EXCEPT ![t] =
                     [entry |-> Cap(@.entry + Count(r.alerts, "entry_long")
                                            + Count(r.alerts, "entry_short")),
                      exit |-> Cap(@.exit + Count(r.alerts, "exit_candidate"))]]
               /\ closedSide' = [closedSide EXCEPT ![t] =
                     IF Has(r.alerts, "stop_loss") THEN st.side ELSE @]
    /\ idx' = idx + 1
    /\ UNCHANGED <<file, tmp, pc, clock, interrupted, reset, crashes>>

\* evaluate_ticker returns at "[SKIP] Not enough data".
EvaluateSkip ==
    /\ pc = "loop" /\ idx <= Len(WATCHLIST)
    /\ outcome' = [outcome EXCEPT ![WATCHLIST[idx]] = "skip"]
    /\ last' = [t |-> WATCHLIST[idx], alerts |-> <<>>]
    /\ idx' = idx + 1
    /\ UNCHANGED <<file, tmp, state, pc, clock, tpCount, barCount, closedSide, interrupted, reset, crashes>>

\* Mutant of EvaluateRaise: the exception leaves the loop and main.
EvaluateRaise_Aborts ==
    /\ pc = "loop" /\ idx <= Len(WATCHLIST)
    /\ outcome' = [outcome EXCEPT ![WATCHLIST[idx]] = "raise"]
    /\ last' = [t |-> WATCHLIST[idx], alerts |-> <<>>]
    /\ pc' = "idle"
    /\ UNCHANGED <<file, tmp, state, idx, clock, tpCount, barCount, closedSide, interrupted, reset, crashes>>

\* evaluate_ticker raises while it takes the ticker's frames apart (a ticker
\* missing from the download, a frame without the columns) or at state.get,
\* which a loaded value that is not a dict does not have; main's except
\* catches it.
EvaluateRaise ==
    /\ pc = "loop" /\ idx <= Len(WATCHLIST)
    /\ outcome' = [outcome EXCEPT ![WATCHLIST[idx]] = "raise"]
    /\ last' = [t |-> WATCHLIST[idx], alerts |-> <<>>]
    /\ idx' = idx + 1
    /\ UNCHANGED <<file, tmp, state, pc, clock, tpCount, barCount, closedSide, interrupted, reset, crashes>>

\* save_state, first half: the temporary file is written.
SaveTmp ==
    /\ pc = "loop" /\ idx > Len(WATCHLIST)
    /\ tmp' = Dump(state)
    /\ pc' = "replace"
    /\ UNCHANGED <<file, state, idx, clock, last, outcome, tpCount, barCount, closedSide, interrupted, reset, crashes>>

\* save_state, second half: os.replace(tmp, STATE_PATH).
Replace ==
    /\ pc = "replace"
    /\ file' = tmp
    /\ tmp' = Absent
    /\ pc' = "idle"
    /\ interrupted' = NoLoss
    /\ UNCHANGED <<state, idx, clock, last, outcome, tpCount, barCount, closedSide, reset, crashes>>

Next == Start \/ EvaluateOk \/ EvaluateSkip \/ EvaluateRaise \/ SaveTmp \/ Replace

Spec == Init /\ [][Next]_vars

\* ------------------------------------------------------------------ alert delivery
\* What becomes of requests.post: it returns a response, it raises for the
\* transport, or it raises for the 15 s timeout.
Nets == {"ok", "error", "timeout"}

\* send_line(message): without a token it prints a warning and returns; with
\* one it posts once, and `except Exception` turns whatever requests.post
\* raises into a printed line.  It returns in every case.
send_line(token, net) ==
    IF ~token THEN "not_sent"
    ELSE IF net = "ok" THEN "posted" ELSE "logged"

\* What can become of the n send_line calls of one evaluation: the token is
\* read once, when the module is loaded, so it is there for all of them or
\* for none.
Deliveries(n) ==
    {[i \in 1..n |-> send_line(FALSE, "ok")]}
    \cup {[i \in 1..n |-> send_line(TRUE, nets[i])] : nets \in [1..n -> Nets]}

\* Mutant of EvaluateSending: the record is stored only when every alert of
\* the evaluation was posted.
EvaluateSending_NeedsDelivery ==
    /\ pc = "loop" /\ idx <= Len(WATCHLIST)
    /\ IsMapping(state)
    /\ LET t == WATCHLIST[idx]
           st == Get(state, t)
       IN \E b \in Snapshots(t) : \E w \in Reads(t, st, b, clock) :
            LET r == evaluate_ticker(st, b, w, clock)
                entered == Has(r.alerts, "entry_long") \/ Has(r.alerts, "entry_short")
            IN \E posts \in Deliveries(Len(r.alerts)) :
                  /\ state' = IF \A i \in 1..Len(posts) : posts[i] = "posted"
                              THEN Put(state, t, r.st) ELSE state
                  /\ last' = [t |-> t, alerts |-> r.alerts, posts |-> posts]
                  /\ outcome' = [outcome EXCEPT ![t] = "ok"]
                  /\ tpCount' = [tpCount EXCEPT ![t] =
                        IF entered THEN [tp1 |-> 0, tp2 |-> 0]
                        ELSE [tp1 |-> Cap(@.tp1 + Count(r.alerts, "tp1")),
                              tp2 |-> Cap(@.tp2 + Count(r.alerts, "tp2"))]]
                  /\ barCount' = [barCount EXCEPT ![t] =
                        [entry |-> Cap(@.entry + Count(r.alerts, "entry_long")
                                               + Count(r.alerts, "entry_short")),
                         exit |-> Cap(@.exit + Count(r.alerts, "exit_candidate"))]]
                  /\ closedSide' = [closedSide EXCEPT ![t] =
                        IF Has(r.alerts, "stop_loss") THEN st.side ELSE @]
    /\ idx' = idx + 1
    /\ UNCHANGED <<file, tmp, pc, clock, interrupted, reset, crashes>>

\* One pass of the loop body in which evaluate_ticker runs to its end, with
\* what becomes of each of its send_line calls.
EvaluateSending ==
    /\ pc = "loop" /\ idx <= Len(WATCHLIST)
    /\ IsMapping(state)
    /\ LET t == WATCHLIST[idx]
           st == Get(state, t)
       IN \E b \in Snapshots(t) : \E w \in Reads(t, st, b, clock) :
            LET r == evaluate_ticker(st, b, w, clock)
                entered == Has(r.alerts, "entry_long") \/ Has(r.alerts, "entry_short")
            IN \E posts \in Deliveries(Len(r.alerts)) :
                  /\ state' = Put(state, t, r.st)
                  /\ last' = [t |-> t, alerts |-> r.alerts, posts |-> posts]
                  /\ outcome' = [outcome EXCEPT ![t] = "ok"]
                  /\ tpCount' = [tpCount EXCEPT ![t] =
                        IF entered THEN [tp1 |-> 0, tp2 |-> 0]
                        ELSE [tp1 |-> Cap(@.tp1 + Count(r.alerts, "tp1")),
                              tp2 |-> Cap(@.tp2 + Count(r.alerts, "tp2"))]]
                  /\ barCount' = [barCount EXCEPT ![t] =
                        [entry |-> Cap(@.entry + Count(r.alerts, "entry_long")
                                               + Count(r.alerts, "entry_short")),
                         exit |-> Cap(@.exit + Count(r.alerts, "exit_candidate"))]]
                  /\ closedSide' = [closedSide EXCEPT ![t] =
                        IF Has(r.alerts, "stop_loss") THEN st.side ELSE @]
    /\ idx' = idx + 1
    /\ UNCHANGED <<file, tmp, pc, clock, interrupted, reset, crashes>>

NextDelivery ==
    \/ Start \/ EvaluateSending \/ EvaluateSkip \/ EvaluateRaise \/ SaveTmp \/ Replace

SpecDelivery == Init /\ [][NextDelivery]_vars

\* ------------------------------------------------------------------ inputs from outside
\* The state file the first run finds: none, one that does not parse, or one
\* that holds a JSON list.
InitEnv ==
    /\ file \in {Absent, Garbage, Dump(JsonList)}
    /\ tmp = Absent
    /\ state = EmptyMap
    /\ pc = "idle"
    /\ idx = 1
    /\ clock = 1
    /\ last = NoPass
    /\ outcome = [t \in Tickers |-> "none"]
    /\ tpCount = [t \in Tickers |-> [tp1 |-> 0, tp2 |-> 0]]
    /\ barCount = [t \in Tickers |-> [entry |-> 0, exit |-> 0]]
    /\ closedSide = [t \in Tickers |-> "none"]
    /\ interrupted = NoLoss
    /\ reset = [input |-> {}, taken |-> {}, alerted |-> {}]
    /\ crashes = 0

\* Between two runs the operator puts a key for ticker X into the manual
\* reset input, which is empty.  No statement of the program reads the input
\* or sends a manual-reset alert: `taken` is set when a run starts, for the
\* record, and `alerted` stays empty.
RequestReset ==
    /\ pc = "idle"
    /\ reset.input = {}
    /\ \E X \in Tickers : reset' = [reset EXCEPT !.input = {X}]
    /\ UNCHANGED <<file, tmp, state, pc, idx, clock, last, outcome, tpCount, barCount,
                   closedSide, interrupted, crashes>>

NextEnv ==
    \/ Start \/ EvaluateOk \/ EvaluateSkip \/ EvaluateRaise \/ SaveTmp \/ Replace
    \/ RequestReset

SpecEnv == InitEnv /\ [][NextEnv]_vars

\* ------------------------------------------------------------------ interrupted runs
\* Mutant of SaveTmpOpen: the document is written to STATE_PATH itself.
SaveTmpOpen_InPlace ==
    /\ pc = "loop" /\ idx > Len(WATCHLIST)
    /\ file' = Partial
    /\ pc' = "writing"
    /\ UNCHANGED <<tmp, state, idx, clock, last, outcome, tpCount, barCount, closedSide, interrupted, reset, crashes>>

\* save_state, open(tmp, "w"): the temporary file exists and json.dump is
\* writing into it.
SaveTmpOpen ==
    /\ pc = "loop" /\ idx > Len(WATCHLIST)
    /\ tmp' = Partial
    /\ pc' = "writing"
    /\ UNCHANGED <<file, state, idx, clock, last, outcome, tpCount, barCount, closedSide, interrupted, reset, crashes>>

\* save_state, the end of the `with` block: the document is whole.
SaveTmpClose ==
    /\ pc = "writing"
    /\ tmp' = Dump(state)
    /\ pc' = "replace"
    /\ UNCHANGED <<file, state, idx, clock, last, outcome, tpCount, barCount, closedSide, interrupted, reset, crashes>>

\* The process is terminated somewhere between load_state and the end of
\* save_state: its dict is gone, the files and the alerts already sent stay.
Crash ==
    /\ pc \in {"loop", "writing", "replace"}
    /\ crashes < MaxCrashes
    /\ crashes' = crashes + 1
    /\ pc' = "idle"
    /\ state' = EmptyMap
    /\ idx' = 1
    /\ last' = NoPass
    /\ outcome' = [t \in Tickers |-> "none"]
    /\ interrupted' = [t |-> last.t, alerts |-> last.alerts, ts |-> clock]
    /\ UNCHANGED <<file, tmp, clock, tpCount, barCount, closedSide, reset>>

NextCrash ==
    \/ Start \/ EvaluateOk \/ EvaluateSkip \/ EvaluateRaise
    \/ SaveTmpOpen \/ SaveTmpClose \/ Replace \/ Crash

\* The first run of a checkout without a state file, on the latest bar the
\* model has: the runs that follow are runs over the same bar.
InitLate ==
    /\ file = Absent
    /\ tmp = Absent
    /\ state = EmptyMap
    /\ pc = "idle"
    /\ idx = 1
    /\ clock = MaxTs
    /\ last = NoPass
    /\ outcome = [t \in Tickers |-> "none"]
    /\ tpCount = [t \in Tickers |-> [tp1 |-> 0, tp2 |-> 0]]
    /\ barCount = [t \in Tickers |-> [entry |-> 0, exit |-> 0]]
    /\ closedSide = [t \in Tickers |-> "none"]
    /\ interrupted = NoLoss
    /\ reset = [input |-> {}, taken |-> {}, alerted |-> {}]
    /\ crashes = 0

SpecCrash == InitLate /\ [][NextCrash]_vars

\* ------------------------------------------------------------------ properties
\* The loop is about to evaluate the ticker Cur.
Pending == pc = "loop" /\ idx <= Len(WATCHLIST)

Cur == WATCHLIST[idx]

\* The record the pending evaluation starts from.
CurRecord == Get(state, Cur)

Stored == {t \in Tickers : t \in DOMAIN state}

\* The current close is on the losing side of the stored stop level.
LosingSide(st, price) ==
    \/ st.side = "long" /\ price <= st.sl
    \/ st.side = "short" /\ price >= st.sl

\* The four long conditions and the four short conditions on the latest bar.
LongConditions(b) ==
    /\ b.d_MA_S > b.d_MA_L
    /\ b.p_MA_S <= b.p_MA_L /\ b.c_MA_S > b.c_MA_L
    /\ b.Close > b.c_MA_L
    /\ b.p_RSI <= RSI_BUY_MAX /\ b.c_RSI > b.p_RSI

ShortConditions(b) ==
    /\ b.d_MA_S < b.d_MA_L
    /\ b.p_MA_S >= b.p_MA_L /\ b.c_MA_S < b.c_MA_L
    /\ b.Close < b.c_MA_L
    /\ b.p_RSI >= RSI_SELL_MIN /\ b.c_RSI < b.p_RSI

\* C1: an evaluation emits a stop-loss alert if and only if the record is
\* open when the evaluation starts and the close is on the losing side of the
\* stored stop level, and every evaluation that emits one ends FLAT (open =
\* false, side = none).
C1_StopLossIffBreach ==
    Pending =>
        \A b \in Snapshots(Cur) : \A w \in Reads(Cur, CurRecord, b, clock) :
            LET st == CurRecord
                r == evaluate_ticker(st, b, w, clock)
            IN /\ Has(r.alerts, "stop_loss") <=> (st.open /\ LosingSide(st, b.Close))
               /\ Has(r.alerts, "stop_loss") => (~r.st.open /\ r.st.side = "none")

\* A stop-loss alert was emitted and the ticker is FLAT.
C1_Witness ==
    /\ last.t \in Stored
    /\ Has(last.alerts, "stop_loss")
    /\ ~state[last.t].open /\ state[last.t].side = "none"

\* C5: every stored record that is FLAT has entry_price, entry_time and sl
\* unset.
C5_FlatHasNoEntryFields ==
    \A t \in Stored :
        ~state[t].open =>
            /\ state[t].entry_price = None
            /\ state[t].entry_time = None
            /\ state[t].sl = None

\* The records of a mapping pair open with a side and its two levels.
WellFormed(m) ==
    \A t \in DOMAIN m :
        /\ m[t].open => /\ m[t].side \in {"long", "short"}
                        /\ m[t].entry_price \in Prices
                        /\ m[t].sl # None /\ m[t].sl > 0
        /\ ~m[t].open => m[t].side = "none"

\* C6: every stored record that is open has side long or short and has
\* entry_price and sl set to numbers, and every record that is not open has
\* side none; in the dict of the run and in the state file.
C6_OpenHasSideAndLevels == WellFormed(state) /\ WellFormed(load_state(file))

\* A short position has just been opened.
C6_Witness ==
    /\ last.t \in Stored
    /\ Has(last.alerts, "entry_short")
    /\ state[last.t].open /\ state[last.t].side = "short"

\* C7: a ticker with a stored FLAT record, evaluated when neither the long nor
\* the short conditions hold, keeps its record field for field and emits no
\* alert.
C7_FlatNoSignalNoChange ==
    Pending /\ Cur \in Stored /\ ~CurRecord.open =>
        \A b \in Snapshots(Cur) : \A w \in Reads(Cur, CurRecord, b, clock) :
            ~LongConditions(b) /\ ~ShortConditions(b) =>
                LET r == evaluate_ticker(CurRecord, b, w, clock)
                IN r.st = CurRecord /\ r.alerts = <<>>

\* A FLAT record that a stop-loss left behind went through an evaluation
\* without an alert.
C7_Witness ==
    /\ last.t \in Stored
    /\ outcome[last.t] = "ok"
    /\ last.alerts = <<>>
    /\ ~state[last.t].open
    /\ closedSide[last.t] # "none"

\* The take-profit level pct percent away from the entry price is reached.
TpReached(st, price, pct) ==
    \/ st.side = "long" /\ price * 100 >= st.entry_price * (100 + pct)
    \/ st.side = "short" /\ price * 100 <= st.entry_price * (100 - pct)

Entered(a) == Has(a, "entry_long") \/ Has(a, "entry_short")

\* C2: tp1_sent and tp2_sent go from true to false only in the evaluation that
\* opens a fresh position, and between one entry and the next at most one
\* take-profit-1 and at most one take-profit-2 alert is emitted.
C2_TakeProfitOncePerPosition ==
    /\ [](\A t \in Tickers : tpCount[t].tp1 <= 1 /\ tpCount[t].tp2 <= 1)
    /\ [][\A t \in Stored :
            (t \in DOMAIN state' /\
               \/ state[t].tp1_sent /\ ~state'[t].tp1_sent
               \/ state[t].tp2_sent /\ ~state'[t].tp2_sent)
            => /\ last'.t = t /\ Entered(last'.alerts)
               /\ ~state[t].open /\ state'[t].open]_vars

\* Both take-profit alerts of the position were emitted once, and a later
\* evaluation of the still open position emitted nothing.
C2_Witness ==
    /\ last.t \in Stored
    /\ outcome[last.t] = "ok" /\ last.alerts = <<>>
    /\ state[last.t].open
    /\ state[last.t].tp1_sent /\ state[last.t].tp2_sent
    /\ tpCount[last.t] = [tp1 |-> 1, tp2 |-> 1]

\* C3: evaluating a ticker a second time against the same bars, from the
\* record the first evaluation produced, gives the same record again and
\* repeats no entry or exit-candidate alert.
C3_Idempotent ==
    Pending =>
        \A b \in Snapshots(Cur) : \A w \in Reads(Cur, CurRecord, b, clock) :
            LET r1 == evaluate_ticker(CurRecord, b, w, clock)
                r2 == evaluate_ticker(r1.st, b, w, clock)
            IN /\ r2.st = r1.st
               /\ \A k \in {"entry_long", "entry_short", "exit_candidate"} :
                     ~(Has(r1.alerts, k) /\ Has(r2.alerts, k))

\* C4: over completed runs with a latest bar that never goes back, each
\* ticker gets at most one entry alert and at most one exit-candidate alert
\* per bar timestamp; the stop-loss and take-profit alerts of an open position
\* are decided by the price alone, also on a bar whose timestamp is the stored
\* last_signal_time.
C4_OneSignalPerBar ==
    /\ \A t \in Tickers : barCount[t].entry <= 1 /\ barCount[t].exit <= 1
    /\ (Pending /\ CurRecord.open /\ CurRecord.last_signal_time = str(clock)) =>
          \A b \in Snapshots(Cur) : \A w \in Reads(Cur, CurRecord, b, clock) :
              LET st == CurRecord
                  r == evaluate_ticker(st, b, w, clock)
              IN /\ Has(r.alerts, "stop_loss") <=> LosingSide(st, b.Close)
                 /\ Has(r.alerts, "tp1") <=> (~st.tp1_sent /\ TpReached(st, b.Close, TP1))
                 /\ Has(r.alerts, "tp2") <=> (~st.tp2_sent /\ TpReached(st, b.Close, TP2))
                 /\ ~Has(r.alerts, "exit_candidate")

\* The bar that carried the entry alert also carried a stop-loss alert, in a
\* later run against the same bar.
C4_Witness ==
    /\ last.t \in Stored
    /\ Has(last.alerts, "stop_loss")
    /\ state[last.t].last_signal_time = str(clock)
    /\ state[last.t].entry_time = str(clock)
    /\ barCount[last.t].entry = 1

\* C8: a position is opened only by an evaluation that starts FLAT, and no
\* evaluation turns a long record into a short one or a short one into a
\* long one.
C8_EntryOnlyFromFlat ==
    [][\A t \in Tickers :
          t \in DOMAIN state' =>
              LET pre == Get(state, t)
                  post == state'[t]
              IN /\ (post.open /\ (post.side # pre.side
                                   \/ post.entry_price # pre.entry_price
                                   \/ post.entry_time # pre.entry_time
                                   \/ post.sl # pre.sl)) => ~pre.open
                 /\ ~(pre.side = "long" /\ post.side = "short")
                 /\ ~(pre.side = "short" /\ post.side = "long")]_vars

\* A short position is open after a long one that a stop-loss closed.
C8_Witness ==
    \E t \in Stored :
        /\ state[t].open /\ state[t].side = "short"
        /\ closedSide[t] = "long"

\* The record of ticker t is the same in the two mappings.
SameRecord(m1, m2, t) ==
    /\ (t \in DOMAIN m1) <=> (t \in DOMAIN m2)
    /\ t \in DOMAIN m1 => m1[t] = m2[t]

Failed(t) == outcome[t] \in {"skip", "raise"}

\* C9: a ticker whose evaluation is skipped or raises emits no alert and keeps
\* the record it had when the run started; the loop goes on to the next
\* ticker, every ticker of the watchlist has been taken when the loop ends,
\* and the run ends by writing the dict to the state file.
C9_FailedTickerIsolated ==
    /\ [][(Pending /\ outcome'[Cur] \in {"skip", "raise"}) =>
             /\ state' = state /\ file' = file
             /\ last' = [t |-> Cur, alerts |-> <<>>]
             /\ pc' = "loop" /\ idx' = idx + 1]_vars
    /\ [](pc = "replace" =>
             /\ \A t \in Tickers : outcome[t] # "none"
             /\ \A t \in Tickers : Failed(t) => SameRecord(state, load_state(file), t)
             /\ tmp = Dump(state))
    /\ [][pc = "replace" => (pc' = "idle" /\ file' = Dump(state))]_vars

\* The first ticker raised with an open position on file, the second was
\* evaluated after it, and the run is at its save with both records.
C9_Witness ==
    /\ pc = "replace"
    /\ outcome[WATCHLIST[1]] = "raise"
    /\ WATCHLIST[1] \in Stored /\ state[WATCHLIST[1]].open
    /\ outcome[WATCHLIST[2]] = "ok"
    /\ last.t = WATCHLIST[2] /\ WATCHLIST[2] \in Stored
    /\ tmp = Dump(state) /\ file # tmp

\* C10: a FLAT ticker enters LONG exactly when the four long conditions hold
\* and the bar timestamp differs from last_signal_time; the entry sets
\* entry_price to the close, sl to the swing low less SL_BUFFER, both
\* take-profit flags to false and last_signal_time to the bar timestamp, and
\* emits exactly one entry alert; the short entry is the mirror image.
C10_EntryExactlyOnSignal ==
    (Pending /\ ~CurRecord.open) =>
        \A b \in Snapshots(Cur) : \A w \in Reads(Cur, CurRecord, b, clock) :
            LET st == CurRecord
                r == evaluate_ticker(st, b, w, clock)
                fresh == st.last_signal_time # str(clock)
                long == r.st.open /\ r.st.side = "long"
                short == r.st.open /\ r.st.side = "short"
            IN /\ long <=> (LongConditions(b) /\ fresh)
               /\ long => /\ r.st.entry_price = b.Close
                          /\ r.st.sl * 1000 = Min(w.Low) * (1000 - SL_BUFFER)
                          /\ ~r.st.tp1_sent /\ ~r.st.tp2_sent
                          /\ r.st.last_signal_time = str(clock)
                          /\ r.alerts = <<"entry_long">>
               /\ short <=> (ShortConditions(b) /\ fresh)
               /\ short => /\ r.st.entry_price = b.Close
                           /\ r.st.sl * 1000 = Max(w.High) * (1000 + SL_BUFFER)
                           /\ ~r.st.tp1_sent /\ ~r.st.tp2_sent
                           /\ r.st.last_signal_time = str(clock)
                           /\ r.alerts = <<"entry_short">>
               /\ (~long /\ ~short) => ~Entered(r.alerts)

\* A long position has just been opened on the latest bar from a FLAT record
\* that a stop-loss had left with its take-profit flags set.
C10_Witness ==
    /\ last.t \in Stored
    /\ last.alerts = <<"entry_long">>
    /\ state[last.t].open /\ state[last.t].side = "long"
    /\ state[last.t].entry_time = str(clock) /\ state[last.t].last_signal_time = str(clock)
    /\ state[last.t].sl < state[last.t].entry_price
    /\ closedSide[last.t] # "none"

\* C11: an open position with neither take-profit flag set, evaluated at a
\* price at or beyond the TP2 level of its entry price, emits the TP1 and the
\* TP2 alert in that one evaluation, sets both flags and stays open with the
\* side it had.
C11_BothTakeProfitsInOnePass ==
    (Pending /\ CurRecord.open /\ ~CurRecord.tp1_sent /\ ~CurRecord.tp2_sent) =>
        \A b \in Snapshots(Cur) : \A w \in Reads(Cur, CurRecord, b, clock) :
            LET st == CurRecord
                r == evaluate_ticker(st, b, w, clock)
            IN TpReached(st, b.Close, TP2) =>
                  /\ Count(r.alerts, "tp1") = 1 /\ Count(r.alerts, "tp2") = 1
                  /\ r.st.tp1_sent /\ r.st.tp2_sent
                  /\ r.st.open /\ r.st.side = st.side

\* One evaluation emitted the first two take-profit alerts of a position that
\* is still open.
C11_Witness ==
    /\ last.t \in Stored
    /\ Has(last.alerts, "tp1") /\ Has(last.alerts, "tp2")
    /\ state[last.t].open /\ state[last.t].side \in {"long", "short"}
    /\ state[last.t].tp1_sent /\ state[last.t].tp2_sent
    /\ tpCount[last.t] = [tp1 |-> 1, tp2 |-> 1]

\* C12: an evaluation of an open position that emits no stop-loss alert
\* leaves open, side, entry_price, entry_time and sl as they were; a stored
\* position goes from open to closed only in an evaluation of its ticker that
\* emits the stop-loss alert; sl and entry_price of a position do not change
\* for as long as it stays open.
C12_OnlyStopLossClosesAPosition ==
    /\ []((Pending /\ CurRecord.open) =>
            \A b \in Snapshots(Cur) : \A w \in Reads(Cur, CurRecord, b, clock) :
                LET st == CurRecord
                    r == evaluate_ticker(st, b, w, clock)
                IN ~Has(r.alerts, "stop_loss") =>
                      /\ r.st.open = st.open /\ r.st.side = st.side
                      /\ r.st.entry_price = st.entry_price
                      /\ r.st.entry_time = st.entry_time
                      /\ r.st.sl = st.sl)
    /\ [][\A t \in Stored :
            (state[t].open /\ t \in DOMAIN state') =>
               /\ ~state'[t].open => (last'.t = t /\ Has(last'.alerts, "stop_loss"))
               /\ state'[t].open => /\ state'[t].sl = state[t].sl
                                    /\ state'[t].entry_price = state[t].entry_price
                                    /\ state'[t].entry_time = state[t].entry_time
                                    /\ state'[t].side = state[t].side]_vars

\* A position opened on an earlier bar emitted its first take-profit and an
\* exit-candidate alert in one evaluation and is still open.
C12_Witness ==
    /\ last.t \in Stored
    /\ Has(last.alerts, "tp1") /\ Has(last.alerts, "exit_candidate")
    /\ ~Has(last.alerts, "stop_loss")
    /\ state[last.t].open
    /\ state[last.t].entry_time # str(clock)
    /\ state[last.t].last_signal_time = str(clock)

\* The place of an alert kind in the order stop-loss, take-profit-1,
\* take-profit-2, exit-candidate.
Rank(k) ==
    CASE k = "stop_loss" -> 1
      [] k = "tp1" -> 2
      [] k = "tp2" -> 3
      [] k = "exit_candidate" -> 4
      [] OTHER -> 5

\* The latest bar carries the cross against the side of the record.
OppositeCross(st, b) ==
    \/ st.side = "long" /\ b.p_MA_S >= b.p_MA_L /\ b.c_MA_S < b.c_MA_L
    \/ st.side = "short" /\ b.p_MA_S <= b.p_MA_L /\ b.c_MA_S > b.c_MA_L

\* C17: in an evaluation of an open position each of the four alerts is
\* decided by its own condition on the record the evaluation starts from, the
\* alerts come in the order stop-loss, take-profit-1, take-profit-2,
\* exit-candidate, and an evaluation that emits the stop-loss alert on a new
\* bar with the opposite cross still emits the exit-candidate alert and
\* records the bar in last_signal_time.
C17_ChecksIndependentAndOrdered ==
    (Pending /\ CurRecord.open) =>
        \A b \in Snapshots(Cur) : \A w \in Reads(Cur, CurRecord, b, clock) :
            LET st == CurRecord
                r == evaluate_ticker(st, b, w, clock)
                a == r.alerts
                newBar == st.last_signal_time # str(clock)
            IN /\ \A i, j \in 1..Len(a) : i < j => Rank(a[i]) < Rank(a[j])
               /\ \A i \in 1..Len(a) : Rank(a[i]) <= 4
               /\ Has(a, "stop_loss") <=> LosingSide(st, b.Close)
               /\ Has(a, "exit_candidate") <=> (OppositeCross(st, b) /\ newBar)
               /\ Has(a, "exit_candidate") => r.st.last_signal_time = str(clock)
               /\ ~Has(a, "exit_candidate") => r.st.last_signal_time = st.last_signal_time
               /\ (LosingSide(st, b.Close) /\ OppositeCross(st, b) /\ newBar) =>
                      /\ a[1] = "stop_loss" /\ a[Len(a)] = "exit_candidate"
                      /\ ~r.st.open

\* One evaluation emitted the stop-loss alert and, after it, the
\* exit-candidate alert of the bar; the record is FLAT with the bar recorded.
C17_Witness ==
    /\ last.t \in Stored
    /\ last.alerts = <<"stop_loss", "exit_candidate">>
    /\ ~state[last.t].open
    /\ state[last.t].last_signal_time = str(clock)
    /\ state[last.t].entry_time # str(clock)

\* The stop level of the record is strictly on the losing side of its entry
\* price.
StopBeyondEntry(st) ==
    /\ st.side = "long" => st.sl < st.entry_price
    /\ st.side = "short" => st.sl > st.entry_price

\* C19: with bars whose low is at most the close and whose high is at least
\* the close, every open record has its sl strictly on the losing side of its
\* entry price (long: sl < entry_price, short: sl > entry_price); no
\* evaluation emits the stop-loss alert together with a take-profit alert;
\* and an evaluation of the entry bar with the same close, right after the
\* entry, emits no stop-loss alert.
C19_StopOnLosingSideOfEntry ==
    /\ \A t \in Stored : state[t].open => StopBeyondEntry(state[t])
    /\ Pending =>
          \A b \in Snapshots(Cur) : \A w \in Reads(Cur, CurRecord, b, clock) :
              LET r == evaluate_ticker(CurRecord, b, w, clock)
                  again == evaluate_ticker(r.st, b, w, clock)
              IN /\ ~(Has(r.alerts, "stop_loss")
                        /\ (Has(r.alerts, "tp1") \/ Has(r.alerts, "tp2")))
                 /\ Entered(r.alerts) =>
                        /\ StopBeyondEntry(r.st)
                        /\ ~Has(again.alerts, "stop_loss")
                        /\ again.st.open

\* A short position opened on the latest bar went through a further
\* evaluation on that bar without an alert and is still open.
C19_Witness ==
    /\ last.t \in Stored
    /\ outcome[last.t] = "ok" /\ last.alerts = <<>>
    /\ state[last.t].open /\ state[last.t].side = "short"
    /\ state[last.t].entry_time = str(clock)
    /\ barCount[last.t].entry = 1
    /\ state[last.t].sl > state[last.t].entry_price

\* Moving-average values around one level, ties included.
Levels == {103000, 104000, 105000}

\* C20: crossed_up and crossed_down are never both true of one pair of
\* snapshots; the long and the short entry signal are never both true of one
\* bar; and the bar whose evaluation opens a long (short) position does not
\* carry the exit cross of a long (short) position.
C20_CrossesExcludeEachOther ==
    /\ \A pa, pb, ca, cb \in Levels :
          ~(crossed_up(pa, pb, ca, cb) /\ crossed_down(pa, pb, ca, cb))
    /\ Pending =>
          \A b \in Snapshots(Cur) : \A w \in Reads(Cur, CurRecord, b, clock) :
              LET r == evaluate_ticker(CurRecord, b, w, clock)
                  again == evaluate_ticker([r.st EXCEPT !.last_signal_time = None],
                                           b, w, clock)
              IN /\ ~(crossed_up(b.p_MA_S, b.p_MA_L, b.c_MA_S, b.c_MA_L)
                        /\ crossed_down(b.p_MA_S, b.p_MA_L, b.c_MA_S, b.c_MA_L))
                 /\ ~(buy_signal(b) /\ sell_signal(b))
                 /\ Entered(r.alerts) =>
                        /\ ~OppositeCross(r.st, b)
                        /\ ~Has(again.alerts, "exit_candidate")

\* A short position was opened, on a bar with the down cross, for a ticker
\* whose earlier short position a stop-loss had closed.
C20_Witness ==
    /\ last.t \in Stored
    /\ last.alerts = <<"entry_short">>
    /\ state[last.t].open /\ state[last.t].side = "short"
    /\ closedSide[last.t] = "short"

\* C13: the state file never holds a document that is not written to its
\* end, and it changes only in the rename that ends save_state, to the
\* document of the whole dict of a run whose loop has taken every ticker:
\* whenever a run is terminated, the file is the one the run started from or
\* the one the run produced.
C13_StateFileNeverTorn ==
    /\ [](file.kind \in {"absent", "json"})
    /\ [][file' # file =>
             /\ pc = "replace" /\ pc' = "idle"
             /\ tmp = Dump(state) /\ file' = Dump(state)
             /\ idx > Len(WATCHLIST)
             /\ \A t \in Tickers : outcome[t] # "none"]_vars

\* A run was terminated inside save_state, after the temporary file was
\* written and before the rename: the state file still holds the mapping of
\* the run before, which differs from the one the terminated run produced.
C13_Witness ==
    /\ pc = "idle"
    /\ file.kind = "json" /\ tmp.kind = "json"
    /\ \E t \in DOMAIN file.data :
          t \in DOMAIN tmp.data /\ file.data[t].open /\ ~tmp.data[t].open

\* C18: a run terminated before its save leaves the state file holding the
\* records the run started from, and the run after it, over the same bar,
\* repeats no entry, exit-candidate or take-profit alert that the terminated
\* run had emitted for the ticker.
C18_NoRepeatAfterInterruption ==
    /\ [](pc = "loop" =>
             \A i \in idx..Len(WATCHLIST) :
                 SameRecord(state, load_state(file), WATCHLIST[i]))
    /\ [][(Pending /\ idx' = idx + 1 /\ Cur = interrupted.t /\ clock = interrupted.ts) =>
             \A k \in {"entry_long", "entry_short", "exit_candidate", "tp1", "tp2"} :
                 ~(Has(interrupted.alerts, k) /\ Has(last'.alerts, k))]_vars

\* C14: whatever becomes of the send_line calls of an evaluation (no token,
\* the transport raising, the timeout), the evaluation ends normally, the
\* loop goes on, each alert is handed to send_line once, and an evaluation
\* with an alert that was not delivered stores the record, and sends the
\* alerts, that evaluate_ticker gives for the bars.
C14_DeliveryFailureChangesNothing ==
    [][(Pending /\ outcome'[Cur] = "ok") =>
          /\ pc' = "loop" /\ idx' = idx + 1
          /\ Len(last'.posts) = Len(last'.alerts)
          /\ \A i \in 1..Len(last'.posts) : last'.posts[i] \in {"not_sent", "posted", "logged"}
          /\ (\E i \in 1..Len(last'.posts) : last'.posts[i] # "posted") =>
                \E b \in Snapshots(Cur) : \E w \in Reads(Cur, CurRecord, b, clock) :
                    LET r == evaluate_ticker(CurRecord, b, w, clock)
                    IN /\ last'.alerts = r.alerts
                       /\ state' = Put(state, Cur, r.st)]_vars

\* The stop-loss alert of an evaluation was not delivered, the transport
\* having raised, and the position is closed all the same.
C14_Witness ==
    /\ last.t \in Stored
    /\ Has(last.alerts, "stop_loss")
    /\ last.posts[1] = "logged"
    /\ ~state[last.t].open /\ state[last.t].side = "none"

\* C15: once a run has read its inputs, every ticker that had a key in the
\* manual reset input when the run started is FLAT, whatever it was before,
\* a manual-reset alert has been sent for it, and its key is gone from the
\* input.
C15_ManualResetForcesFlat ==
    (pc = "loop" /\ idx = 1) =>
        \A X \in reset.taken :
            /\ ~Get(state, X).open /\ Get(state, X).side = "none"
            /\ X \in reset.alerted
            /\ X \notin reset.input

\* The state file parses to a mapping.
GoodFile(f) == f.kind = "json" /\ IsMapping(f.data)

\* C16: a run that finds the state file absent, not parseable or not holding
\* a mapping starts its loop from the empty mapping; the dict of a run is a
\* mapping throughout, and what the run writes at its end is a well-formed
\* mapping of tickers to records.
C16_LoadToleratesBadFile ==
    /\ (pc = "loop" /\ idx = 1 /\ ~GoodFile(file)) => state = EmptyMap
    /\ pc \in {"loop", "replace"} => IsMapping(state)
    /\ pc = "replace" => (tmp.kind = "json" /\ IsMapping(tmp.data) /\ WellFormed(tmp.data))

====
